---------------------------- MODULE Spec2Model ----------------------------
(***************************************************************************)
(* A model of the cli-grid crate: Cell, Row and Grid values, their         *)
(* builders, and the rendering engine of src/src/row.rs and                *)
(* src/src/grid.rs.                                                        *)
(*                                                                         *)
(* A Rust String is a sequence of chars; a char is written as a short TLA+ *)
(* string ("a", "mu", "LF", ...).  Its UTF-8 encoding is the sequence of   *)
(* its bytes, a byte being the pair <<char, k>> (the k-th byte of char),   *)
(* so that slicing at a byte offset is something that can go wrong.        *)
(***************************************************************************)
EXTENDS Integers, Sequences, FiniteSets, TLC

\* Option<T>: None is the empty sequence, Some(x) the sequence <<x>>
None == <<>>
Some(x) == <<x>>
\* no panic raised
NoPanic == "none"
\* no content line chosen (a blank slot)
NoLine == -1

(***************************************************************************)
(* Bounds of the model.                                                    *)
(***************************************************************************)
\* longest line handed to pad / col_line in the function-level specifications
MaxLen == 3
\* largest width handed to pad / col_line in the function-level specifications
MaxWidth == 4
\* largest number of lines of a row in the function-level specification of col_line
MaxLines == 3
\* most cells of a Row built in Spec
MaxCells == 2
\* most rows of a Grid built in Spec
MaxRows == 1
\* most optional builder setters called while one Grid is built in Spec
MaxCalls == 2
\* largest column span, column width and padding size handed to a constructor or setter
MaxArg == 2
\* the most rows of a Grid that is handed over ready-made to be rendered
MaxGridRows == 2
\* the most calls of to_string on a Grid
MaxRenders == 2

(***************************************************************************)
(* chars and strings                                                       *)
(***************************************************************************)
LF == "LF"
CR == "CR"
SPACE == " "

\* char::len_utf8: "mu" stands for U+00B5 (2 bytes), "delta" for U+2206 (3 bytes)
len_utf8(ch) == CASE ch = "mu" -> 2 [] ch = "delta" -> 3 [] OTHER -> 1

\* cell.rs:3-6
DEFAULT_COLSPAN == 1
DEFAULT_H_ALIGN == "Left"
DEFAULT_V_ALIGN == "Top"
DEFAULT_BLANK_CHAR == SPACE

HAlign == {"Left", "Right", "Center", "Fill"}
VAlign == {"Top", "Bottom", "Middle"}

\* usize: the target's pointer width, here 16 bits (the smallest Rust supports)
UsizeModulus == 65536
IsizeMax == UsizeModulus \div 2 - 1

\* the value a panicking call yields instead of a result
Panic(msg) == [panic |-> msg, text |-> <<>>]
\* the value a call that returns text yields
Ok(text) == [panic |-> NoPanic, text |-> text]
IsPanic(v) == v.panic # NoPanic

\* std::iter::repeat(ch).take(n).collect::<String>()
RECURSIVE RepeatChar(_, _)
RepeatChar(ch, n) == IF n <= 0 THEN <<>> ELSE <<ch>> \o RepeatChar(ch, n - 1)

\* str::repeat(n)
RECURSIVE RepeatStr(_, _)
RepeatStr(s, n) == IF n <= 0 THEN <<>> ELSE s \o RepeatStr(s, n - 1)

\* the first n elements of a sequence (all of it when it is shorter)
Take(s, n) == SubSeq(s, 1, IF n < Len(s) THEN n ELSE Len(s))

\* the UTF-8 bytes of a string
RECURSIVE Encode(_)
Encode(s) ==
    IF s = <<>> THEN <<>>
    ELSE [k \in 1..len_utf8(Head(s)) |-> <<Head(s), k>>] \o Encode(Tail(s))

\* str::len (in bytes)
ByteLen(s) == Len(Encode(s))

\* whether a byte sequence starts at a char boundary and ends at one
RECURSIVE WellFormed(_)
WellFormed(bytes) ==
    IF bytes = <<>> THEN TRUE
    ELSE LET n == len_utf8(Head(bytes)[1])
         IN  /\ Len(bytes) >= n
             /\ \A k \in 1..n : bytes[k] = <<Head(bytes)[1], k>>
             /\ WellFormed(SubSeq(bytes, n + 1, Len(bytes)))

\* the string a well-formed byte sequence encodes
RECURSIVE Decode(_)
Decode(bytes) ==
    IF bytes = <<>> THEN <<>>
    ELSE <<Head(bytes)[1]>>
         \o Decode(SubSeq(bytes, len_utf8(Head(bytes)[1]) + 1, Len(bytes)))

\* &s[..end]: panics unless end is a char boundary within s
SliceTo(s, end) ==
    LET bytes == Encode(s)
    IN  IF end > Len(bytes) \/ ~WellFormed(SubSeq(bytes, 1, end))
        THEN Panic("byte index is not a char boundary")
        ELSE Ok(Decode(SubSeq(bytes, 1, end)))

\* s.char_indices(): the pairs (byte offset, char), offsets counted from 0
RECURSIVE CharIndicesFrom(_, _)
CharIndicesFrom(s, off) ==
    IF s = <<>> THEN <<>>
    ELSE <<[i |-> off, ch |-> Head(s)]>>
         \o CharIndicesFrom(Tail(s), off + len_utf8(Head(s)))

char_indices(s) == CharIndicesFrom(s, 0)

\* a plausible bug: the char index taken for the byte offset
byte_index_AsCharIndex(s, char_index) ==
    IF char_index < Len(s) THEN char_index ELSE Len(s)

\* row.rs:233-238
byte_index(s, char_index) ==
    LET taken == Take(char_indices(s), char_index)
    IN  IF taken = <<>> THEN 0
        ELSE taken[Len(taken)].i + len_utf8(taken[Len(taken)].ch)


(***************************************************************************)
(* row.rs: pad and col_line                                                *)
(***************************************************************************)
\* an allocation of more than isize::MAX bytes panics ("capacity overflow")
TooBig(nbytes) == nbytes > IsizeMax

\* a plausible bug: the odd blank of Center put on the left
CenterLeftBlanks_Ceil(blanks) == blanks - blanks \div 2

\* row.rs:215
CenterLeftBlanks(blanks) == blanks \div 2

\* a plausible bug: one repeat too few
FillRepeats_NoExtra(width, s_chars_len) == width \div s_chars_len

\* row.rs:225 (a sum of usize::MAX + 1 wraps: a width of usize::MAX is reached
\* only in a build without overflow checks, through row.rs:107)
FillRepeats(width, s_chars_len) == (width \div s_chars_len + 1) % UsizeModulus

\* a plausible bug: the line cut one codepoint short
pad_truncate_DropLast(s, width) ==
    SliceTo(s, byte_index(s, IF width > 0 THEN width - 1 ELSE 0))

\* row.rs:197-200, the branch taken when s_chars_len >= width
pad_truncate(s, width) == SliceTo(s, byte_index(s, width))

\* row.rs:203-206: the scratch line itself is extended and returned
pad_Left(s, blanks, blank_char) ==
    IF TooBig(ByteLen(s) + blanks * len_utf8(blank_char))
    THEN [res |-> Panic("capacity overflow"), s |-> s]
    ELSE [res |-> Ok(s \o RepeatChar(blank_char, blanks)),
          s |-> s \o RepeatChar(blank_char, blanks)]

\* row.rs:207-213
pad_Right(s, blanks, blank_char) ==
    IF TooBig(ByteLen(s) + blanks * len_utf8(blank_char))
    THEN [res |-> Panic("capacity overflow"), s |-> s]
    ELSE [res |-> Ok(RepeatChar(blank_char, blanks) \o s), s |-> s]

\* row.rs:214-223
pad_Center(s, blanks, blank_char) ==
    LET left_blanks == CenterLeftBlanks(blanks)
        right_blanks == blanks - left_blanks
    IN  IF TooBig(ByteLen(s) + blanks * len_utf8(blank_char))
        THEN [res |-> Panic("capacity overflow"), s |-> s]
        ELSE [res |-> Ok(RepeatChar(blank_char, left_blanks) \o s
                            \o RepeatChar(blank_char, right_blanks)),
              s |-> s]

\* row.rs:224-229 (blank_char is not used)
pad_Fill(s, width, blank_char) ==
    LET s_chars_len == Len(s)
    IN  IF s_chars_len = 0
        THEN [res |-> Panic("attempt to divide by zero"), s |-> s]
        ELSE LET repeats == FillRepeats(width, s_chars_len)
             IN  IF TooBig(ByteLen(s) * repeats)
                 THEN [res |-> Panic("capacity overflow"), s |-> s]
                 ELSE LET rep == RepeatStr(s, repeats)
                      IN  [res |-> SliceTo(rep, byte_index(rep, width)), s |-> s]

\* row.rs:195-231.  The result is [res, s]: the text returned (or the panic
\* raised) and the value of the scratch line s after the call.
pad(h_align, s, width, blank_char) ==
    LET s_chars_len == Len(s)
        blanks == width - s_chars_len
    IN  IF s_chars_len >= width
        THEN [res |-> pad_truncate(s, width), s |-> s]
        ELSE CASE h_align = "Left" -> pad_Left(s, blanks, blank_char)
               [] h_align = "Right" -> pad_Right(s, blanks, blank_char)
               [] h_align = "Center" -> pad_Center(s, blanks, blank_char)
               [] h_align = "Fill" -> pad_Fill(s, width, blank_char)

\* a plausible bug: Middle rounds the blank lines above the content up
MiddleStart_Ceil(max_lines, len) == (max_lines - len + 1) \div 2

\* row.rs:180
MiddleStart(max_lines, len) == (max_lines - len) \div 2

\* a plausible bug: the lines of a cell shown again and again down the row
col_line_index_Wrap(v_align, len, max_lines, line_index) == line_index % len

\* row.rs:160-188: the index of the content line shown at output line
\* line_index (counted from 0), or NoLine for a blank slot
col_line_index(v_align, len, max_lines, line_index) ==
    CASE v_align = "Top" ->
            LET start_line_index == 0
                end_line_index == len - 1
            IN  IF line_index >= start_line_index /\ line_index <= end_line_index
                THEN line_index ELSE NoLine
      [] v_align = "Bottom" ->
            LET start_line_index == max_lines - len
                end_line_index == max_lines - 1
            IN  IF line_index >= start_line_index /\ line_index <= end_line_index
                THEN line_index - start_line_index ELSE NoLine
      [] v_align = "Middle" ->
            LET start_line_index == MiddleStart(max_lines, len)
                end_line_index == start_line_index + len - 1
            IN  IF line_index >= start_line_index /\ line_index <= end_line_index
                THEN line_index - start_line_index ELSE NoLine

\* row.rs:192
blank_line(col_width, blank_char) ==
    IF TooBig(col_width * len_utf8(blank_char))
    THEN Panic("capacity overflow")
    ELSE Ok(RepeatChar(blank_char, col_width))

\* row.rs:151-193.  col_lines is a sequence (indexed from 1) of scratch
\* lines; the result is [res, index, col_lines]: the text (or panic), the
\* content line chosen (NoLine: a blank slot) and the scratch lines afterwards.
col_line(h_align, v_align, col_width, col_lines, max_lines, line_index, blank_char) ==
    LET index == col_line_index(v_align, Len(col_lines), max_lines, line_index)
    IN  IF index # NoLine
        THEN LET p == pad(h_align, col_lines[index + 1], col_width, blank_char)
             IN  [res |-> p.res, index |-> index,
                  col_lines |-> [col_lines EXCEPT ![index + 1] = p.s]]
        ELSE [res |-> blank_line(col_width, blank_char), index |-> NoLine,
              col_lines |-> col_lines]


(***************************************************************************)
(* std: str::lines and the formatting of the padding gap                   *)
(***************************************************************************)
\* str::split_inclusive('\n'): every piece but the last ends with LF
RECURSIVE SplitInclusiveFrom(_, _)
SplitInclusiveFrom(s, cur) ==
    IF s = <<>> THEN (IF cur = <<>> THEN <<>> ELSE <<cur>>)
    ELSE IF Head(s) = LF
         THEN <<Append(cur, LF)>> \o SplitInclusiveFrom(Tail(s), <<>>)
         ELSE SplitInclusiveFrom(Tail(s), Append(cur, Head(s)))

\* the closure of str::lines: strip one LF, and then one CR before it
StripLineEnd(l) ==
    IF l # <<>> /\ l[Len(l)] = LF
    THEN LET l1 == SubSeq(l, 1, Len(l) - 1)
         IN  IF l1 # <<>> /\ l1[Len(l1)] = CR
             THEN SubSeq(l1, 1, Len(l1) - 1) ELSE l1
    ELSE l

\* a plausible bug: the text split at every LF, so that a last LF is
\* followed by one more, empty, line
lines_SplitAtEvery(s) ==
    LET pieces == SplitInclusiveFrom(s, <<>>)
    IN  [i \in 1..Len(pieces) |-> StripLineEnd(pieces[i])]
          \o (IF s # <<>> /\ s[Len(s)] = LF THEN <<(<<>>)>> ELSE <<>>)

\* str::lines
lines(s) ==
    LET pieces == SplitInclusiveFrom(s, <<>>)
    IN  [i \in 1..Len(pieces) |-> StripLineEnd(pieces[i])]

\* a plausible bug: the gap written with no minimum width
format_left_NoWidth(s, width) == s

\* format!("{s:<0$}", width, s = ..): s left-aligned in at least width chars,
\* filled with spaces (row.rs:124)
format_left(s, width) ==
    IF Len(s) >= width THEN s ELSE s \o RepeatChar(SPACE, width - Len(s))

(***************************************************************************)
(* Option                                                                  *)
(***************************************************************************)
\* a plausible bug: the fallback preferred to the value
or_PreferFallback(a, b) == IF b # None THEN b ELSE a

\* Option::or
or(a, b) == IF a # None THEN a ELSE b

\* Option::unwrap_or
unwrap_or(a, d) == IF a # None THEN a[1] ELSE d

(***************************************************************************)
(* State                                                                   *)
(***************************************************************************)
VARIABLES
    pc,        \* "construct", "grid" (Grid::render between two rows),
               \* "row" (inside Row::render), "done" or "panicked"
    cb,        \* the CellBuilder in hand: None or Some(its inner Cell)
    cells,     \* the Vec<Cell> collected for the next Row
    rb,        \* the RowBuilder in hand: None or Some(its inner Row)
    rows,      \* the Vec<Row> collected for the Grid
    gb,        \* the GridBuilder in hand: None or Some(its inner Grid)
    grid,      \* the Grid built: None or Some(Grid)
    calls,     \* the number of builder setters called so far
    rs,        \* the locals of Grid::render and of the running Row::render
    writes,    \* what Row::render wrote to the formatter, one record for
               \* each pass of its inner loop
    outputs,   \* the texts the calls of to_string that have returned gave
    panic,     \* the message of the panic raised, or NoPanic
    overflow_checks,  \* "on" or "off" once an integer overflow has shown
                      \* which kind of build runs, "unknown" before
    call,      \* a call of pad or col_line on its own, in the
               \* function-level specifications
    other      \* the second of two calls of to_string that run at the same
               \* time, while it is not the one running: its grid, pc, rs,
               \* writes and panic; NoOther when there is one call only

vars == <<pc, cb, cells, rb, rows, gb, grid, calls, rs, writes, outputs, panic,
          overflow_checks, call, other>>

build_vars == <<cb, cells, rb, rows, gb, grid, calls>>
render_vars == <<rs, writes, outputs, overflow_checks>>

NoCall == [fn |-> "none"]
NoRender == [row_index |-> 0]
NoOther == [id |-> 0]

\* the state before anything is constructed
InitBuild ==
    /\ pc = "construct"
    /\ cb = None /\ cells = <<>> /\ rb = None /\ rows = <<>> /\ gb = None
    /\ grid = None /\ calls = 0
    /\ rs = NoRender /\ writes = <<>> /\ outputs = <<>> /\ panic = NoPanic
    /\ overflow_checks = "unknown"
    /\ other = NoOther

(***************************************************************************)
(* cell.rs, row.rs, grid.rs: the values and their constructors             *)
(***************************************************************************)
\* the arguments the model hands to the constructors and setters
Contents == {<<>>, <<"a">>, <<"mu", "b", LF, "c">>}
SpanArgs == 0..MaxArg
WidthArgs == 0..MaxArg
PaddingArgs == 0..MaxArg
BlankArgs == {".", "-"}

\* options.rs:4-20, as Row::new and Grid::new fill it
NoOptions == [col_span |-> None, h_align |-> None, v_align |-> None,
              blank_char |-> None]

\* a plausible bug: a column span of 0 taken for 1
Cell_new_CoerceZero(content, col_span) ==
    [panic |-> NoPanic,
     v |-> Some([content |-> content,
                 col_span |-> Some(IF col_span = 0 THEN 1 ELSE col_span),
                 h_align |-> None, v_align |-> None, blank_char |-> None])]

\* cell.rs:87-98.  The result is [panic, v]: the panic raised, or Some(Cell)
Cell_new(content, col_span) ==
    IF col_span = 0
    THEN [panic |-> "Column span cannot be 0", v |-> None]
    ELSE [panic |-> NoPanic,
          v |-> Some([content |-> content, col_span |-> Some(col_span),
                      h_align |-> None, v_align |-> None, blank_char |-> None])]

\* row.rs:36-48
Row_new(cs) ==
    [default_options |-> NoOptions, column_width |-> None,
     padding_size |-> None, cells |-> cs]

\* a plausible bug: the hard defaults of the layout stored by Grid::new
Grid_new_DefaultLayout(rws) ==
    [default_options |-> NoOptions, column_width |-> Some(1),
     padding_size |-> Some(1), rows |-> rws]

\* grid.rs:40-54
Grid_new(rws) ==
    [default_options |-> NoOptions, column_width |-> None,
     padding_size |-> None, rows |-> rws]

Constructing == pc = "construct" /\ grid = None

\* a panic ends the program
Raise(msg) == pc' = "panicked" /\ panic' = msg

\* (cells are made for a Row that is still to come)
CanAddCell ==
    /\ Constructing /\ cb = None /\ rb = None /\ gb = None
    /\ Len(cells) < MaxCells /\ Len(rows) < MaxRows

\* a Cell written as a struct literal with every option None (all the fields
\* of Cell are pub: cell.rs:38-78)
CellLiteral(content) ==
    /\ CanAddCell
    /\ cells' = Append(cells, [content |-> content, col_span |-> None,
                               h_align |-> None, v_align |-> None,
                               blank_char |-> None])
    /\ UNCHANGED <<pc, cb, rb, rows, gb, grid, calls, render_vars, panic, call, other>>

\* cell.rs:87-98, the Cell going into the Vec of the next Row
CellNew(content, col_span) ==
    /\ CanAddCell
    /\ LET c == Cell_new(content, col_span)
       IN  IF c.panic # NoPanic
           THEN Raise(c.panic) /\ UNCHANGED cells
           ELSE cells' = Append(cells, c.v[1]) /\ UNCHANGED <<pc, panic>>
    /\ UNCHANGED <<cb, rb, rows, gb, grid, calls, render_vars, call, other>>

\* cell.rs:115-117
CellNewEmpty(col_span) == CellNew(<<>>, col_span)

\* cell.rs:105-107: Cell::builder(content, col_span).h_align(HAlign::Fill).build()
CellNewFill(content, col_span) ==
    /\ CanAddCell
    /\ LET c == Cell_new(content, col_span)
       IN  IF c.panic # NoPanic
           THEN Raise(c.panic) /\ UNCHANGED cells
           ELSE /\ cells' = Append(cells, [c.v[1] EXCEPT !.h_align = Some("Fill")])
                /\ UNCHANGED <<pc, panic>>
    /\ UNCHANGED <<cb, rb, rows, gb, grid, calls, render_vars, call, other>>

\* cell.rs:125-129
CellBuilderNew(content, col_span) ==
    /\ CanAddCell
    /\ LET c == Cell_new(content, col_span)
       IN  IF c.panic # NoPanic
           THEN Raise(c.panic) /\ UNCHANGED cb
           ELSE cb' = c.v /\ UNCHANGED <<pc, panic>>
    /\ UNCHANGED <<cells, rb, rows, gb, grid, calls, render_vars, call, other>>

\* (the model calls a setter only to change what its builder holds: once for
\* each optional field)
CanSetCell == Constructing /\ cb # None /\ calls < MaxCalls

\* the frame of a CellBuilder setter
CellBuilderSet(inner) ==
    /\ CanSetCell
    /\ cb' = Some(inner)
    /\ calls' = calls + 1
    /\ UNCHANGED <<pc, cells, rb, rows, gb, grid, render_vars, panic, call, other>>

\* cell.rs:164-167
CellBuilder_col_span(col_span) ==
    /\ cb # None /\ cb[1].col_span # Some(col_span)
    /\ CellBuilderSet([cb[1] EXCEPT !.col_span = Some(col_span)])

\* cell.rs:174-177
CellBuilder_h_align(h_align) ==
    /\ cb # None /\ cb[1].h_align = None
    /\ CellBuilderSet([cb[1] EXCEPT !.h_align = Some(h_align)])

\* cell.rs:184-187
CellBuilder_v_align(v_align) ==
    /\ cb # None /\ cb[1].v_align = None
    /\ CellBuilderSet([cb[1] EXCEPT !.v_align = Some(v_align)])

\* cell.rs:194-197
CellBuilder_blank_char(blank_char) ==
    /\ cb # None /\ cb[1].blank_char = None
    /\ CellBuilderSet([cb[1] EXCEPT !.blank_char = Some(blank_char)])

\* cell.rs:144-146
CellBuilder_build ==
    /\ Constructing /\ cb # None
    /\ cells' = Append(cells, cb[1])
    /\ cb' = None
    /\ UNCHANGED <<pc, rb, rows, gb, grid, calls, render_vars, panic, call, other>>

CanAddRow == Constructing /\ cb = None /\ rb = None /\ gb = None /\ Len(rows) < MaxRows

\* row.rs:36-48, the Row going into the Vec of the Grid
RowNew ==
    /\ CanAddRow
    /\ rows' = Append(rows, Row_new(cells))
    /\ cells' = <<>>
    /\ UNCHANGED <<pc, cb, rb, gb, grid, calls, render_vars, panic, call, other>>

\* row.rs:65-69
RowBuilderNew ==
    /\ CanAddRow
    /\ rb' = Some(Row_new(cells))
    /\ cells' = <<>>
    /\ UNCHANGED <<pc, cb, rows, gb, grid, calls, render_vars, panic, call, other>>

\* the frame of a RowBuilder setter
RowBuilderSet(inner) ==
    /\ Constructing /\ rb # None /\ calls < MaxCalls
    /\ rb' = Some(inner)
    /\ calls' = calls + 1
    /\ UNCHANGED <<pc, cb, cells, rows, gb, grid, render_vars, panic, call, other>>

\* row.rs:258-261
RowBuilder_default_colspan(default_col_span) ==
    /\ rb # None /\ rb[1].default_options.col_span = None
    /\ RowBuilderSet([rb[1] EXCEPT !.default_options.col_span = Some(default_col_span)])

\* row.rs:265-268
RowBuilder_default_h_align(default_h_align) ==
    /\ rb # None /\ rb[1].default_options.h_align = None
    /\ RowBuilderSet([rb[1] EXCEPT !.default_options.h_align = Some(default_h_align)])

\* row.rs:272-275
RowBuilder_default_v_align(default_v_align) ==
    /\ rb # None /\ rb[1].default_options.v_align = None
    /\ RowBuilderSet([rb[1] EXCEPT !.default_options.v_align = Some(default_v_align)])

\* row.rs:279-282
RowBuilder_default_blank_char(default_blank_char) ==
    /\ rb # None /\ rb[1].default_options.blank_char = None
    /\ RowBuilderSet([rb[1] EXCEPT !.default_options.blank_char = Some(default_blank_char)])

\* row.rs:287-290
RowBuilder_column_width(column_width) ==
    /\ rb # None /\ rb[1].column_width = None
    /\ RowBuilderSet([rb[1] EXCEPT !.column_width = Some(column_width)])

\* row.rs:295-298
RowBuilder_padding_size(padding_size) ==
    /\ rb # None /\ rb[1].padding_size = None
    /\ RowBuilderSet([rb[1] EXCEPT !.padding_size = Some(padding_size)])

\* row.rs:252-254
RowBuilder_build ==
    /\ Constructing /\ rb # None
    /\ rows' = Append(rows, rb[1])
    /\ rb' = None
    /\ UNCHANGED <<pc, cb, cells, gb, grid, calls, render_vars, panic, call, other>>

CanMakeGrid == Constructing /\ cb = None /\ rb = None /\ gb = None /\ cells = <<>>

\* grid.rs:40-54
GridNew ==
    /\ CanMakeGrid
    /\ grid' = Some(Grid_new(rows))
    /\ rows' = <<>>
    /\ UNCHANGED <<pc, cb, cells, rb, gb, calls, render_vars, panic, call, other>>

\* grid.rs:59-63
GridBuilderNew ==
    /\ CanMakeGrid
    /\ gb' = Some(Grid_new(rows))
    /\ rows' = <<>>
    /\ UNCHANGED <<pc, cb, cells, rb, grid, calls, render_vars, panic, call, other>>

\* the frame of a GridBuilder setter
GridBuilderSet(inner) ==
    /\ Constructing /\ gb # None /\ calls < MaxCalls
    /\ gb' = Some(inner)
    /\ calls' = calls + 1
    /\ UNCHANGED <<pc, cb, cells, rb, rows, grid, render_vars, panic, call, other>>

\* grid.rs:96-102
GridBuilder_default_colspan(default_colspan) ==
    /\ gb # None /\ gb[1].default_options.col_span = None
    /\ IF default_colspan = 0
       THEN /\ Constructing /\ calls < MaxCalls
            /\ Raise("Column span cannot be 0!")
            /\ UNCHANGED <<build_vars, render_vars, call, other>>
       ELSE GridBuilderSet([gb[1] EXCEPT
                              !.default_options.col_span = Some(default_colspan)])

\* grid.rs:106-109
GridBuilder_default_h_align(default_h_align) ==
    /\ gb # None /\ gb[1].default_options.h_align = None
    /\ GridBuilderSet([gb[1] EXCEPT !.default_options.h_align = Some(default_h_align)])

\* grid.rs:113-116
GridBuilder_default_v_align(default_v_align) ==
    /\ gb # None /\ gb[1].default_options.v_align = None
    /\ GridBuilderSet([gb[1] EXCEPT !.default_options.v_align = Some(default_v_align)])

\* grid.rs:120-123
GridBuilder_default_blank_char(default_blank_char) ==
    /\ gb # None /\ gb[1].default_options.blank_char = None
    /\ GridBuilderSet([gb[1] EXCEPT !.default_options.blank_char = Some(default_blank_char)])

\* grid.rs:126-129
GridBuilder_column_width(column_width) ==
    /\ gb # None /\ gb[1].column_width = None
    /\ GridBuilderSet([gb[1] EXCEPT !.column_width = Some(column_width)])

\* grid.rs:132-135
GridBuilder_padding_size(padding_size) ==
    /\ gb # None /\ gb[1].padding_size = None
    /\ GridBuilderSet([gb[1] EXCEPT !.padding_size = Some(padding_size)])

\* grid.rs:90-92
GridBuilder_build ==
    /\ Constructing /\ gb # None
    /\ grid' = gb
    /\ gb' = None
    /\ UNCHANGED <<pc, cb, cells, rb, rows, calls, render_vars, panic, call, other>>

(***************************************************************************)
(* grid.rs, row.rs: rendering                                              *)
(***************************************************************************)
\* a plausible bug: the loop over the rows started after the first row
GridFmt_FromSecond ==
    /\ pc = "construct" /\ grid # None
    /\ pc' = "grid"
    /\ rs' = [row_index |-> 2]
    /\ UNCHANGED <<build_vars, writes, outputs, overflow_checks, panic, call, other>>

\* grid.rs:79-83: Display::fmt of the Grid built, which calls Grid::render
GridFmt ==
    /\ pc = "construct" /\ grid # None
    /\ pc' = "grid"
    /\ rs' = [row_index |-> 1]
    /\ UNCHANGED <<build_vars, writes, outputs, overflow_checks, panic, call, other>>

\* what the formatter holds: the texts written, one after the other
RECURSIVE Written(_)
Written(ws) == IF ws = <<>> THEN <<>> ELSE Head(ws).s \o Written(Tail(ws))

\* a plausible bug: the rows moved out of the Grid by the rendering
GridRenderReturn_TakeRows ==
    /\ pc = "grid" /\ rs.row_index > Len(grid[1].rows)
    /\ pc' = "done"
    /\ outputs' = Append(outputs, Written(writes))
    /\ grid' = Some([grid[1] EXCEPT !.rows = <<>>])
    /\ UNCHANGED <<cb, cells, rb, rows, gb, calls, rs, writes, overflow_checks,
                   panic, call, other>>

\* grid.rs:67, 75: the loop over the rows has ended, and to_string returns
\* the text the formatter holds
GridRenderReturn ==
    /\ pc = "grid" /\ rs.row_index > Len(grid[1].rows)
    /\ pc' = "done"
    /\ outputs' = Append(outputs, Written(writes))
    /\ UNCHANGED <<build_vars, rs, writes, overflow_checks, panic, call, other>>

\* grid.rs:79-83: the Grid is rendered once more, into a new formatter
GridFmtAgain ==
    /\ pc = "done" /\ Len(outputs) < MaxRenders
    /\ pc' = "grid"
    /\ rs' = [row_index |-> 1]
    /\ writes' = <<>>
    /\ UNCHANGED <<build_vars, outputs, overflow_checks, panic, call, other>>

\* a plausible bug: an empty content left without a line
ColsLines_NoEmptyLine(cs) ==
    [i \in 1..Len(cs) |-> lines(cs[i].content)]

\* row.rs:83-93: the scratch copies of the lines of every cell
ColsLines(cs) ==
    [i \in 1..Len(cs) |->
        LET ls == lines(cs[i].content)
        IN  IF ls = <<>> THEN <<(<<>>)>> ELSE ls]

\* a plausible bug: the line count of the first cell taken for the largest
MaxLinesFrom_First(cols_lines, i) ==
    IF i > Len(cols_lines) THEN 0 ELSE Len(cols_lines[i])

\* row.rs:94-98
RECURSIVE MaxLinesFrom(_, _)
MaxLinesFrom(cols_lines, i) ==
    IF i > Len(cols_lines) THEN 0
    ELSE LET rest == MaxLinesFrom(cols_lines, i + 1)
         IN  IF Len(cols_lines[i]) > rest THEN Len(cols_lines[i]) ELSE rest

\* a plausible bug: the Row's own column width taken before the caller's
RowColumnWidth_RowFirst(row, column_width) ==
    unwrap_or(or(row.column_width, column_width), 1)

\* row.rs:81: the column width a Row is rendered with
RowColumnWidth(row, column_width) == unwrap_or(or(column_width, row.column_width), 1)

\* row.rs:82: the padding size a Row is rendered with
RowPaddingSize(row, padding_size) == unwrap_or(or(padding_size, row.padding_size), 1)

\* a plausible bug: the loop over the rows not advanced past a row without
\* lines
RowRenderBegin_EmptyRowStays ==
    /\ pc = "grid" /\ rs.row_index <= Len(grid[1].rows)
    /\ LET g == grid[1]
           row == g.rows[rs.row_index]
           cols_lines == ColsLines(row.cells)
           max_lines == MaxLinesFrom(cols_lines, 1)
       IN  IF max_lines = 0
           THEN UNCHANGED <<rs, pc>>
           ELSE /\ rs' = [row_index |-> rs.row_index,
                          default_options |-> g.default_options,
                          column_width |-> RowColumnWidth(row, g.column_width),
                          padding_size |-> RowPaddingSize(row, g.padding_size),
                          cols_lines |-> cols_lines,
                          max_lines |-> max_lines,
                          line_index |-> 0,
                          col_index |-> 0]
                /\ pc' = "row"
    /\ UNCHANGED <<build_vars, writes, outputs, overflow_checks, panic, call, other>>

\* grid.rs:68-73 and row.rs:74-98: Grid::render calls Row::render on the
\* next row, which runs up to its loops (a row with no cell has no line and
\* returns at once)
RowRenderBegin ==
    /\ pc = "grid" /\ rs.row_index <= Len(grid[1].rows)
    /\ LET g == grid[1]
           row == g.rows[rs.row_index]
           cols_lines == ColsLines(row.cells)
           max_lines == MaxLinesFrom(cols_lines, 1)
       IN  IF max_lines = 0
           THEN /\ rs' = [row_index |-> rs.row_index + 1]
                /\ UNCHANGED pc
           ELSE /\ rs' = [row_index |-> rs.row_index,
                          default_options |-> g.default_options,
                          column_width |-> RowColumnWidth(row, g.column_width),
                          padding_size |-> RowPaddingSize(row, g.padding_size),
                          cols_lines |-> cols_lines,
                          max_lines |-> max_lines,
                          line_index |-> 0,
                          col_index |-> 0]
                /\ pc' = "row"
    /\ UNCHANGED <<build_vars, writes, outputs, overflow_checks, panic, call, other>>

\* the row and the cell of the running pass of the inner loop (row.rs:100)
CurRow == grid[1].rows[rs.row_index]
CurCol == CurRow.cells[rs.col_index + 1]

\* row.rs:102-106
col_span_for(col, row, default_options) ==
    unwrap_or(or(or(col.col_span, row.default_options.col_span),
                 default_options.col_span), 1)

\* row.rs:108-112
h_align_for(col, row, default_options) ==
    unwrap_or(or(or(col.h_align, row.default_options.h_align),
                 default_options.h_align), DEFAULT_H_ALIGN)

\* row.rs:113-117
v_align_for(col, row, default_options) ==
    unwrap_or(or(or(col.v_align, row.default_options.v_align),
                 default_options.v_align), DEFAULT_V_ALIGN)

\* row.rs:118-122
blank_char_for(col, row, default_options) ==
    unwrap_or(or(or(col.blank_char, row.default_options.blank_char),
                 default_options.blank_char), DEFAULT_BLANK_CHAR)

\* the same, for the running pass
Cur_col_span == col_span_for(CurCol, CurRow, rs.default_options)
Cur_h_align == h_align_for(CurCol, CurRow, rs.default_options)
Cur_v_align == v_align_for(CurCol, CurRow, rs.default_options)
Cur_blank_char == blank_char_for(CurCol, CurRow, rs.default_options)

\* a plausible bug: the padding inside a spanned cell forgotten
col_width_NoPadding(col_span, column_width, padding_size) ==
    (col_span * column_width) % UsizeModulus

\* row.rs:107, in wrapping arithmetic: col_span - 1 wraps to usize::MAX when
\* col_span is 0 (a build with overflow checks panics there instead)
col_width_of(col_span, column_width, padding_size) ==
    (col_span * column_width
        + padding_size * ((col_span - 1) % UsizeModulus)) % UsizeModulus

\* row.rs:107, with overflow checks: col_span - 1 panics when col_span is 0
RowRenderCellOverflow ==
    /\ pc = "row"
    /\ Cur_col_span = 0
    /\ overflow_checks \in {"unknown", "on"}
    /\ overflow_checks' = "on"
    /\ Raise("attempt to subtract with overflow")
    /\ UNCHANGED <<build_vars, rs, writes, outputs, call, other>>

\* the locals of a pass, as the log keeps them
PassLocals(col_width) ==
    [row |-> rs.row_index, line |-> rs.line_index, col |-> rs.col_index,
     col_span |-> Cur_col_span, col_width |-> col_width,
     h_align |-> Cur_h_align, v_align |-> Cur_v_align,
     blank_char |-> Cur_blank_char]

\* one write to the formatter
Write(kind, s, index, locals) ==
    [kind |-> kind, s |-> s, index |-> index, at |-> locals]

\* row.rs:100-134: one pass of the inner loop, for the cell col_index at
\* the output line line_index; after the last cell the line is ended
\* (row.rs:134), and after the last line Row::render returns
RowRenderCell ==
    /\ pc = "row"
    /\ Cur_col_span = 0 => overflow_checks \in {"unknown", "off"}
    /\ overflow_checks' = IF Cur_col_span = 0 THEN "off" ELSE overflow_checks
    /\ LET col_width == col_width_of(Cur_col_span, rs.column_width, rs.padding_size)
           at == PassLocals(col_width)
           gap == IF rs.col_index # 0
                  THEN <<Write("gap", format_left(<<>>, rs.padding_size), NoLine, at)>>
                  ELSE <<>>
           cl == col_line(Cur_h_align, Cur_v_align, col_width,
                          rs.cols_lines[rs.col_index + 1], rs.max_lines,
                          rs.line_index, Cur_blank_char)
           last_col == rs.col_index + 1 = Len(CurRow.cells)
           last_line == rs.line_index + 1 = rs.max_lines
           nl == IF last_col THEN <<Write("nl", <<LF>>, NoLine, at)>> ELSE <<>>
       IN  IF cl.res.panic # NoPanic
           THEN /\ writes' = writes \o gap
                /\ Raise(cl.res.panic)
                /\ UNCHANGED rs
           ELSE /\ writes' = writes \o gap
                                \o <<Write("cell", cl.res.text, cl.index, at)>> \o nl
                /\ UNCHANGED panic
                /\ IF last_col /\ last_line
                   THEN /\ rs' = [row_index |-> rs.row_index + 1]
                        /\ pc' = "grid"
                   ELSE /\ rs' = [rs EXCEPT
                                    !.cols_lines[rs.col_index + 1] = cl.col_lines,
                                    !.col_index = IF last_col THEN 0 ELSE @ + 1,
                                    !.line_index = IF last_col THEN @ + 1 ELSE @]
                        /\ UNCHANGED pc
    /\ UNCHANGED <<build_vars, outputs, call, other>>

\* row.rs:99-136: the loops of Row::render run as one from the pass k (the
\* cell k % c of the output line k \div c) to their end.  The result is
\* the text written, or the panic that ended the call; checks tells if the
\* build has overflow checks.
RECURSIVE RowLoop(_, _, _, _, _, _, _, _)
RowLoop(row, default_options, column_width, padding_size, cols_lines, max_lines, k, checks) ==
    LET c == Len(row.cells)
    IN  IF k >= max_lines * c THEN Ok(<<>>)
        ELSE
          LET line_index == k \div c
              col_index == k % c
              col == row.cells[col_index + 1]
              col_span == col_span_for(col, row, default_options)
              col_width == col_width_of(col_span, column_width, padding_size)
              gap == IF col_index # 0 THEN format_left(<<>>, padding_size) ELSE <<>>
              cl == col_line(h_align_for(col, row, default_options),
                             v_align_for(col, row, default_options),
                             col_width, cols_lines[col_index + 1], max_lines,
                             line_index, blank_char_for(col, row, default_options))
              nl == IF col_index + 1 = c THEN <<LF>> ELSE <<>>
          IN  IF col_span = 0 /\ checks = "on"
              THEN Panic("attempt to subtract with overflow")
              ELSE IF IsPanic(cl.res) THEN cl.res
              ELSE LET rest == RowLoop(row, default_options, column_width,
                                       padding_size,
                                       [cols_lines EXCEPT ![col_index + 1] = cl.col_lines],
                                       max_lines, k + 1, checks)
                   IN  IF IsPanic(rest) THEN rest
                       ELSE Ok(gap \o cl.res.text \o nl \o rest.text)

\* row.rs:74-137: Row::render run from its call to its return
Row_render(row, default_options, column_width, padding_size, checks) ==
    LET cols_lines == ColsLines(row.cells)
    IN  RowLoop(row, default_options, RowColumnWidth(row, column_width),
                RowPaddingSize(row, padding_size), cols_lines,
                MaxLinesFrom(cols_lines, 1), 0, checks)

\* grid.rs:66-76: the loop of Grid::render run as one from the row i
RECURSIVE GridLoop(_, _, _)
GridLoop(g, i, checks) ==
    IF i > Len(g.rows) THEN Ok(<<>>)
    ELSE LET r == Row_render(g.rows[i], g.default_options, g.column_width,
                             g.padding_size, checks)
         IN  IF IsPanic(r) THEN r
             ELSE LET rest == GridLoop(g, i + 1, checks)
                  IN  IF IsPanic(rest) THEN rest ELSE Ok(r.text \o rest.text)

\* grid.rs:66-76: Grid::render run from its call to its return, with no
\* step of another call in between
Grid_render(g, checks) == GridLoop(g, 1, checks)

\* row.rs:140-149: Display::fmt of a Row, which calls Row::render with the
\* Row's own default_options, column_width and padding_size
Row_fmt(row, checks) ==
    Row_render(row, row.default_options, row.column_width, row.padding_size, checks)

\* row.rs:140-149: to_string of the Row made last, before it goes into a
\* Grid; its text is returned, or the call panics
RowFmt ==
    /\ Constructing /\ rows # <<>> /\ outputs = <<>>
    /\ LET r == Row_fmt(rows[Len(rows)], "on")
       IN  IF IsPanic(r)
           THEN /\ Raise(r.panic)
                /\ UNCHANGED outputs
           ELSE /\ outputs' = Append(outputs, r.text)
                /\ UNCHANGED <<pc, panic>>
    /\ UNCHANGED <<build_vars, rs, writes, overflow_checks, call, other>>

\* a plausible bug: two calls writing to one formatter
Switch_OneFormatter ==
    /\ other # NoOther /\ other.pc \notin {"done", "panicked"}
    /\ pc' = other.pc /\ rs' = other.rs /\ panic' = other.panic
    /\ grid' = other.grid
    /\ other' = [id |-> 3 - other.id, pc |-> pc, rs |-> rs, writes |-> other.writes,
                 panic |-> panic, grid |-> grid]
    /\ UNCHANGED <<cb, cells, rb, rows, gb, calls, writes, outputs, overflow_checks, call>>

\* two calls of to_string run at the same time (grid.rs:66-76 takes &self):
\* the call that was running stops where it is and the other one goes on
Switch ==
    /\ other # NoOther /\ other.pc \notin {"done", "panicked"}
    /\ pc' = other.pc /\ rs' = other.rs /\ writes' = other.writes
    /\ panic' = other.panic /\ grid' = other.grid
    /\ other' = [id |-> 3 - other.id, pc |-> pc, rs |-> rs, writes |-> writes,
                 panic |-> panic, grid |-> grid]
    /\ UNCHANGED <<cb, cells, rb, rows, gb, calls, outputs, overflow_checks, call>>

(***************************************************************************)
(* Spec: a Grid is built from Cells written as literals or made by         *)
(* CellBuilder, with the option setters of the three builders, and         *)
(* rendered.                                                               *)
(***************************************************************************)
Init == InitBuild /\ call = NoCall

\* the content handed to the constructors in Spec and SpecSpan
OptionContents == {<<"a">>}

BuildCell ==
    \/ \E content \in OptionContents : CellLiteral(content)
    \/ \E content \in OptionContents, col_span \in SpanArgs : CellBuilderNew(content, col_span)
    \/ \E col_span \in SpanArgs : CellBuilder_col_span(col_span)
    \/ \E h_align \in HAlign : CellBuilder_h_align(h_align)
    \/ \E v_align \in VAlign : CellBuilder_v_align(v_align)
    \/ \E blank_char \in BlankArgs : CellBuilder_blank_char(blank_char)
    \/ CellBuilder_build

BuildRow ==
    \/ RowNew
    \/ RowBuilderNew
    \/ \E col_span \in SpanArgs : RowBuilder_default_colspan(col_span)
    \/ \E h_align \in HAlign : RowBuilder_default_h_align(h_align)
    \/ \E v_align \in VAlign : RowBuilder_default_v_align(v_align)
    \/ \E blank_char \in BlankArgs : RowBuilder_default_blank_char(blank_char)
    \/ RowBuilder_build

BuildGrid ==
    \/ GridNew
    \/ GridBuilderNew
    \/ \E col_span \in SpanArgs : GridBuilder_default_colspan(col_span)
    \/ \E h_align \in HAlign : GridBuilder_default_h_align(h_align)
    \/ \E v_align \in VAlign : GridBuilder_default_v_align(v_align)
    \/ \E blank_char \in BlankArgs : GridBuilder_default_blank_char(blank_char)
    \/ GridBuilder_build

Render ==
    \/ GridFmt
    \/ RowRenderBegin
    \/ RowRenderCell
    \/ RowRenderCellOverflow
    \/ GridRenderReturn

Next == BuildCell \/ BuildRow \/ BuildGrid \/ Render

Spec == Init /\ [][Next]_vars

(***************************************************************************)
(* SpecSpan: a Grid is built with every constructor of Cell and the column *)
(* span setters of the three builders, and rendered.                       *)
(***************************************************************************)
SpanBuild ==
    \/ \E content \in OptionContents, col_span \in SpanArgs : CellNew(content, col_span)
    \/ \E col_span \in SpanArgs : CellNewEmpty(col_span)
    \/ \E content \in OptionContents, col_span \in SpanArgs : CellNewFill(content, col_span)
    \/ \E content \in OptionContents, col_span \in SpanArgs : CellBuilderNew(content, col_span)
    \/ \E col_span \in SpanArgs : CellBuilder_col_span(col_span)
    \/ CellBuilder_build
    \/ RowNew
    \/ RowBuilderNew
    \/ \E col_span \in SpanArgs : RowBuilder_default_colspan(col_span)
    \/ RowBuilder_build
    \/ GridNew
    \/ GridBuilderNew
    \/ \E col_span \in SpanArgs : GridBuilder_default_colspan(col_span)
    \/ GridBuilder_build

NextSpan == SpanBuild \/ Render

SpecSpan == Init /\ [][NextSpan]_vars

(***************************************************************************)
(* SpecLayout: a Grid of cells made by Cell::new is built with the layout  *)
(* setters (column width, padding size) and the grid-wide alignment and    *)
(* blank char, and rendered.                                               *)
(***************************************************************************)
LayoutBuild ==
    \/ \E content \in Contents, col_span \in SpanArgs : CellNew(content, col_span)
    \/ RowNew
    \/ RowBuilderNew
    \/ \E column_width \in WidthArgs : RowBuilder_column_width(column_width)
    \/ \E padding_size \in PaddingArgs : RowBuilder_padding_size(padding_size)
    \/ RowBuilder_build
    \/ GridNew
    \/ GridBuilderNew
    \/ \E h_align \in HAlign : GridBuilder_default_h_align(h_align)
    \/ \E blank_char \in BlankArgs : GridBuilder_default_blank_char(blank_char)
    \/ \E column_width \in WidthArgs : GridBuilder_column_width(column_width)
    \/ \E padding_size \in PaddingArgs : GridBuilder_padding_size(padding_size)
    \/ GridBuilder_build

LayoutRender ==
    \/ GridFmt
    \/ RowRenderBegin
    \/ RowRenderCell
    \/ GridRenderReturn

NextLayout == LayoutBuild \/ LayoutRender

SpecLayout == Init /\ [][NextLayout]_vars

(***************************************************************************)
(* Function-level specifications: pad and col_line called on their own,    *)
(* as the unit tests of row.rs call them.                                  *)
(***************************************************************************)
\* the chars of the lines handed to pad and col_line
LineChars == {"a", "b", "mu", "."}
BlankChars == {".", "delta"}

\* all strings of at most n chars over a set of chars
StringsUpTo(chars, n) == UNION {[1..k -> chars] : k \in 0..n}

InitPad ==
    /\ InitBuild
    /\ call \in [fn : {"pad"}, st : {"called"}, h_align : HAlign,
                 s : StringsUpTo(LineChars, MaxLen), width : 0..MaxWidth,
                 blank_char : BlankChars, res : {Ok(<<>>)}, s_after : {<<>>},
                 first : {None}]

\* pad runs
PadReturn ==
    /\ call.fn = "pad" /\ call.st = "called"
    /\ LET p == pad(call.h_align, call.s, call.width, call.blank_char)
       IN  call' = [call EXCEPT !.st = "returned", !.res = p.res, !.s_after = p.s]
    /\ UNCHANGED <<pc, build_vars, render_vars, panic, other>>

\* pad is called once more, on the text it returned, with the same
\* alignment, width and blank char
PadAgain ==
    /\ call.fn = "pad" /\ call.st = "returned"
    /\ ~IsPanic(call.res) /\ call.first = None
    /\ call' = [call EXCEPT !.st = "called", !.s = call.res.text,
                            !.res = Ok(<<>>), !.s_after = <<>>,
                            !.first = Some(call.res.text)]
    /\ UNCHANGED <<pc, build_vars, render_vars, panic, other>>

NextPad == PadReturn \/ PadAgain

SpecPad == InitPad /\ [][NextPad]_vars


\* the lines of the scratch copies handed to col_line
ColLineStrings == {<<>>, <<"a">>, <<"mu", "b">>}

InitColLine ==
    /\ InitBuild
    /\ call \in {c \in [fn : {"col_line"}, st : {"called"}, h_align : HAlign,
                        v_align : VAlign, col_width : 0..MaxWidth,
                        col_lines : UNION {[1..k -> ColLineStrings] : k \in 1..MaxLines},
                        max_lines : 1..MaxLines, line_index : 0..(MaxLines - 1),
                        blank_char : {"."}, res : {Ok(<<>>)}, index : {NoLine},
                        col_lines_after : {<<>>}] :
                    /\ Len(c.col_lines) <= c.max_lines
                    /\ c.line_index < c.max_lines}

\* col_line runs
ColLineReturn ==
    /\ call.fn = "col_line" /\ call.st = "called"
    /\ LET r == col_line(call.h_align, call.v_align, call.col_width, call.col_lines,
                         call.max_lines, call.line_index, call.blank_char)
       IN  call' = [call EXCEPT !.st = "returned", !.res = r.res, !.index = r.index,
                                !.col_lines_after = r.col_lines]
    /\ UNCHANGED <<pc, build_vars, render_vars, panic, other>>

NextColLine == ColLineReturn

SpecColLine == InitColLine /\ [][NextColLine]_vars

(***************************************************************************)
(* SpecRender: a Grid of up to MaxGridRows rows, built beforehand with     *)
(* Cell::new, Row::new and the setters of GridBuilder, is rendered.        *)
(***************************************************************************)

\* the column spans of the cells of these grids
RenderSpans == 1..MaxArg

\* the contents of the cells of these grids: none, a line with its line
\* break, and two lines, the first ended by CR LF, the second by a CR
\* that no line break follows
RenderContents == {<<>>, <<"a", LF>>, <<"b", CR, LF, "c", CR>>}

\* the cells Cell::new makes from these contents and spans
RenderCells == {Cell_new(content, col_span).v[1] :
                   content \in RenderContents, col_span \in RenderSpans}

\* the rows Row::new makes from up to MaxCells of these cells
RenderRows == {Row_new(cs) : cs \in StringsUpTo(RenderCells, MaxCells)}

\* the grids Grid::builder(rows) makes, with or without its column_width,
\* padding_size and default_h_align setters called
RenderGrids ==
    {[Grid_new(rws) EXCEPT !.column_width = w, !.padding_size = p,
                           !.default_options.h_align = h] :
        rws \in StringsUpTo(RenderRows, MaxGridRows),
        w \in {None, Some(MaxArg)},
        p \in {None, Some(0), Some(MaxArg)},
        h \in {None, Some("Fill")}}

InitRender ==
    /\ pc = "construct"
    /\ cb = None /\ cells = <<>> /\ rb = None /\ rows = <<>> /\ gb = None
    /\ grid \in {Some(g) : g \in RenderGrids}
    /\ calls = 0
    /\ rs = NoRender /\ writes = <<>> /\ outputs = <<>> /\ panic = NoPanic
    /\ overflow_checks = "unknown"
    /\ other = NoOther
    /\ call = NoCall

NextRender ==
    \/ GridFmt
    \/ RowRenderBegin
    \/ RowRenderCell
    \/ GridRenderReturn
    \/ GridFmtAgain

SpecRender == InitRender /\ [][NextRender]_vars

(***************************************************************************)
(* SpecRenderFair: rendering, with a call of to_string that has started    *)
(* going on to its next step: the call runs on its caller's thread, it     *)
(* waits for nothing and nothing can cancel it.                            *)
(***************************************************************************)
\* the grids rendered: of cells of span 1, empty or of two lines, with the
\* default column width and padding size, with or without the grid-wide Fill
FairGrids ==
    {g \in RenderGrids :
        /\ g.column_width = None /\ g.padding_size = None
        /\ \A i \in 1..Len(g.rows) : \A j \in 1..Len(g.rows[i].cells) :
               /\ g.rows[i].cells[j].col_span = Some(1)
               /\ g.rows[i].cells[j].content \in {<<>>, <<"b", CR, LF, "c", CR>>}}

InitRenderFair ==
    /\ pc = "construct"
    /\ cb = None /\ cells = <<>> /\ rb = None /\ rows = <<>> /\ gb = None
    /\ grid \in {Some(g) : g \in FairGrids}
    /\ calls = 0
    /\ rs = NoRender /\ writes = <<>> /\ outputs = <<>> /\ panic = NoPanic
    /\ overflow_checks = "unknown"
    /\ call = NoCall
    /\ other = NoOther

\* a step of a call of to_string that is running
RenderStep == RowRenderBegin \/ RowRenderCell \/ GridRenderReturn

\* one call of to_string
NextRenderFair ==
    \/ GridFmt
    \/ RowRenderBegin
    \/ RowRenderCell
    \/ GridRenderReturn

SpecRenderFair == InitRenderFair /\ [][NextRenderFair]_vars /\ WF_vars(RenderStep)

(***************************************************************************)
(* SpecConcurrent: two calls of to_string, each on its Grid (the two Grids *)
(* may be the same), run with their steps interleaved in any order.        *)
(***************************************************************************)
\* the grids of the two calls: of one row at most, of cells of span 1, with
\* or without the grid-wide Fill
ConcurrentGrids ==
    {g \in RenderGrids :
        /\ Len(g.rows) <= 1 /\ g.column_width = None /\ g.padding_size = None
        /\ \A i \in 1..Len(g.rows) : \A j \in 1..Len(g.rows[i].cells) :
               g.rows[i].cells[j].col_span = Some(1)}

InitConcurrent ==
    /\ pc = "construct"
    /\ cb = None /\ cells = <<>> /\ rb = None /\ rows = <<>> /\ gb = None
    /\ grid \in {Some(g) : g \in ConcurrentGrids}
    /\ calls = 0
    /\ rs = NoRender /\ writes = <<>> /\ outputs = <<>> /\ panic = NoPanic
    /\ overflow_checks = "unknown"
    /\ call = NoCall
    /\ other \in [id : {2}, pc : {"construct"}, rs : {NoRender}, writes : {<<>>},
                  panic : {NoPanic}, grid : {Some(g) : g \in ConcurrentGrids}]

NextConcurrent ==
    \/ GridFmt
    \/ RowRenderBegin
    \/ RowRenderCell
    \/ GridRenderReturn
    \/ Switch

SpecConcurrent == InitConcurrent /\ [][NextConcurrent]_vars

(***************************************************************************)
(* SpecRowDisplay: a Row is formatted on its own, or not, then put into a  *)
(* Grid made by Grid::new, which is rendered.                              *)
(***************************************************************************)
\* the cells of the Row: made by Cell::new, or written as a literal that
\* sets no column span
DisplayCells ==
    RenderCells \cup {[content |-> <<"a", LF>>, col_span |-> None, h_align |-> None,
                       v_align |-> None, blank_char |-> None]}

\* the Rows formatted: with or without defaults, a column width and a
\* padding size of their own
DisplayRows ==
    {[Row_new(cs) EXCEPT !.default_options = [col_span |-> s, h_align |-> h,
                                              v_align |-> v, blank_char |-> b],
                         !.column_width = w, !.padding_size = p] :
        cs \in StringsUpTo(DisplayCells, MaxCells),
        s \in {None, Some(MaxArg)}, h \in {None, Some("Right"), Some("Fill")},
        v \in {None, Some("Bottom"), Some("Middle")}, b \in {None, Some(".")},
        w \in {None, Some(MaxArg)}, p \in {None, Some(0)}}

InitRowDisplay ==
    /\ pc = "construct"
    /\ cb = None /\ cells = <<>> /\ rb = None /\ gb = None
    /\ rows \in {<<row>> : row \in DisplayRows}
    /\ grid = None /\ calls = 0
    /\ rs = NoRender /\ writes = <<>> /\ outputs = <<>> /\ panic = NoPanic
    /\ overflow_checks = "unknown"
    /\ call = NoCall
    /\ other = NoOther

NextRowDisplay ==
    \/ RowFmt
    \/ GridNew
    \/ GridFmt
    \/ RowRenderBegin
    \/ RowRenderCell
    \/ GridRenderReturn

SpecRowDisplay == InitRowDisplay /\ [][NextRowDisplay]_vars

(***************************************************************************)
(* Claims about pad (SpecPad) and col_line (SpecColLine)                   *)
(***************************************************************************)
PadReturned == call.fn = "pad" /\ call.st = "returned"

\* the text of w chars made of lead copies of b, then S, then copies of b
Framed(out, S, w, lead, b) ==
    /\ Len(out) = w
    /\ \A i \in 1..w :
          out[i] = IF i <= lead \/ i > lead + Len(S) THEN b ELSE S[i - lead]

\* C4: a line S of L <= W codepoints comes out of pad as S followed by W-L
\* blank_chars (Left), as W-L blank_chars followed by S (Right), or as
\* floor((W-L)/2) blank_chars, S and the remaining blank_chars (Center): the
\* odd blank is on the right.
C4_PadAlign ==
    (PadReturned /\ Len(call.s) <= call.width
        /\ call.h_align \in {"Left", "Right", "Center"})
    => /\ call.res.panic = NoPanic
       /\ LET blanks == call.width - Len(call.s)
              lead == CASE call.h_align = "Left" -> 0
                        [] call.h_align = "Right" -> blanks
                        [] call.h_align = "Center" -> blanks \div 2
          IN  Framed(call.res.text, call.s, call.width, lead, call.blank_char)

\* C4's case: a Center call whose number of blanks is odd has returned
C4_Witness ==
    /\ PadReturned /\ call.h_align = "Center"
    /\ Len(call.s) >= 1 /\ Len(call.s) < call.width
    /\ (call.width - Len(call.s)) % 2 = 1
    /\ call.res.text[call.width] = call.blank_char

FillCase ==
    /\ PadReturned /\ call.h_align = "Fill"
    /\ Len(call.s) >= 1 /\ Len(call.s) <= call.width

\* the i-th codepoint (from 0) of out is S[i mod L], for every i < W
Cyclic(out, S, w) ==
    /\ Len(out) = w
    /\ \A i \in 0..(w - 1) : out[i + 1] = S[(i % Len(S)) + 1]

\* C5 as stated: a Fill-aligned line of 1 <= L <= W codepoints comes out with
\* exactly W codepoints, the i-th being S[i mod L], and blank_char never
\* appears in it.
C5_FillNoBlankAtAll ==
    FillCase
    => /\ call.res.panic = NoPanic
       /\ Cyclic(call.res.text, call.s, call.width)
       /\ \A i \in 1..Len(call.res.text) : call.res.text[i] # call.blank_char

\* C5 as amended: a Fill-aligned line of 1 <= L <= W codepoints comes out with
\* exactly W codepoints, the i-th being S[i mod L]; no blank_char is added:
\* blank_char stands in the output only where the repeated S itself has it.
C5_Fill ==
    FillCase
    => /\ call.res.panic = NoPanic
       /\ Cyclic(call.res.text, call.s, call.width)
       /\ \A i \in 1..Len(call.res.text) :
             call.res.text[i] = call.blank_char
             => call.s[((i - 1) % Len(call.s)) + 1] = call.blank_char

\* C5's case: a Fill call whose content does not divide the width has returned
C5_Witness ==
    /\ FillCase /\ Len(call.s) = 2 /\ call.width = 3
    /\ call.s[1] # call.s[2]
    /\ call.res.text = <<call.s[1], call.s[2], call.s[1]>>

\* C6: a line S of L >= W codepoints comes out of pad, under every alignment,
\* as its first W codepoints and nothing else: byte_index returns the byte
\* offset at which the W-th codepoint ends, no panic is raised and the
\* scratch line is left as it was.
C6_Truncate ==
    (PadReturned /\ Len(call.s) >= call.width)
    => /\ call.res.panic = NoPanic
       /\ Len(call.res.text) = call.width
       /\ \A i \in 1..call.width : call.res.text[i] = call.s[i]
       /\ byte_index(call.s, call.width) = ByteLen(Take(call.s, call.width))
       /\ call.s_after = call.s

\* C6's case: a line cut right after a two-byte char has returned
C6_Witness ==
    /\ PadReturned /\ Len(call.s) > call.width /\ call.width >= 1
    /\ call.s[call.width] = "mu"
    /\ call.res.text = Take(call.s, call.width)

ColLineReturned == call.fn = "col_line" /\ call.st = "returned"

\* C7: a cell of k lines in a row of m lines shows its j-th line at output
\* line j (Top), (m-k)+j (Bottom) or floor((m-k)/2)+j (Middle), and
\* blank_char repeated width times at every other output line.
C7_VAlign ==
    ColLineReturned
    => LET k == Len(call.col_lines)
           m == call.max_lines
           first == CASE call.v_align = "Top" -> 0
                      [] call.v_align = "Bottom" -> m - k
                      [] call.v_align = "Middle" -> (m - k) \div 2
           j == call.line_index - first
       IN  IF 0 <= j /\ j < k
           THEN /\ call.index = j
                /\ call.res = pad(call.h_align, call.col_lines[j + 1],
                                  call.col_width, call.blank_char).res
           ELSE /\ call.index = NoLine
                /\ call.res.panic = NoPanic
                /\ Len(call.res.text) = call.col_width
                /\ \A i \in 1..call.col_width : call.res.text[i] = call.blank_char

\* C7's case: Middle with an odd number of blank lines; the content is on the
\* first line and the extra blank line below it
C7_Witness ==
    /\ ColLineReturned /\ call.v_align = "Middle"
    /\ Len(call.col_lines) = 1 /\ call.max_lines = 2
    /\ call.line_index = 0 /\ call.index = 0


(***************************************************************************)
(* Claims about the precedence of the options (Spec), the layout           *)
(* (SpecLayout) and the column spans (SpecSpan)                            *)
(***************************************************************************)
\* the first value that is set among those of the cell, the row and the
\* grid, and the hard default when none is
FirstSet(c, r, g, d) ==
    CASE c # None -> c[1]
      [] c = None /\ r # None -> r[1]
      [] c = None /\ r = None /\ g # None -> g[1]
      [] OTHER -> d

\* the Row and the Cell a write to the formatter was made for
RowOf(w) == grid[1].rows[w.at.row]
CellOf(w) == RowOf(w).cells[w.at.col + 1]

\* C1: for every cell rendered, each of column_span, h_align, v_align and
\* blank_char is the cell's own value when set, else the row's default, else
\* the grid's default, else 1, Left, Top, space; it depends on no other cell.
C1_Precedence ==
    \A n \in 1..Len(writes) :
       LET w == writes[n]
           col == CellOf(w)
           rdef == RowOf(w).default_options
           gdef == grid[1].default_options
       IN  /\ w.at.col_span = FirstSet(col.col_span, rdef.col_span, gdef.col_span, 1)
           /\ w.at.h_align = FirstSet(col.h_align, rdef.h_align, gdef.h_align, "Left")
           /\ w.at.v_align = FirstSet(col.v_align, rdef.v_align, gdef.v_align, "Top")
           /\ w.at.blank_char
                = FirstSet(col.blank_char, rdef.blank_char, gdef.blank_char, SPACE)

\* C1's case: a row whose default blank char is set has rendered a cell with
\* a blank char of its own, which it used, and a cell without, which used
\* the row's
C1_Witness ==
    \E n1, n2 \in 1..Len(writes) :
       LET w1 == writes[n1]
           w2 == writes[n2]
       IN  /\ w1.kind = "cell" /\ w2.kind = "cell"
           /\ w1.at.row = w2.at.row /\ w1.at.col # w2.at.col
           /\ RowOf(w1).default_options.blank_char # None
           /\ CellOf(w1).blank_char # None
           /\ CellOf(w1).blank_char # RowOf(w1).default_options.blank_char
           /\ CellOf(w2).blank_char = None
           /\ w1.at.blank_char = CellOf(w1).blank_char[1]
           /\ w2.at.blank_char = RowOf(w1).default_options.blank_char[1]

\* C2 as stated: a Row is rendered with its own column_width (padding_size)
\* when it sets one, with the Grid's when only the Grid sets one, and with 1
\* when neither does.
C2_RowValueWins ==
    pc = "row"
    => /\ rs.column_width
            = FirstSet(None, CurRow.column_width, grid[1].column_width, 1)
       /\ rs.padding_size
            = FirstSet(None, CurRow.padding_size, grid[1].padding_size, 1)

\* the codepoints a cell of span N takes: N*W + P*(N-1)
SpanWidth(n, w, p) == n * w + p * (n - 1)

\* C3 as stated: every cell of span N >= 1 gets, at every output line of its
\* row, a text of exactly N*W + P*(N-1) codepoints, whatever its alignments
\* and the length of its content.
C3_CellWidth ==
    /\ \A n \in 1..Len(writes) :
          LET w == writes[n]
          IN  (w.kind = "cell" /\ w.at.col_span >= 1)
              => Len(w.s) = SpanWidth(w.at.col_span,
                                      RowColumnWidth(RowOf(w), grid[1].column_width),
                                      RowPaddingSize(RowOf(w), grid[1].padding_size))
    /\ ~(pc = "panicked" /\ "col_index" \in DOMAIN rs /\ Cur_col_span >= 1)

\* C8: on every output line of a row of c cells there are c-1 padding gaps,
\* one right before each cell but the first and none after the last; a gap
\* is padding_size spaces whatever the blank char and alignment around it.
C8_Gaps ==
    \A n \in 1..Len(writes) :
       LET w == writes[n]
           p == RowPaddingSize(RowOf(w), grid[1].padding_size)
       IN  /\ w.kind = "gap"
              => /\ w.at.col >= 1
                 /\ Len(w.s) = p
                 /\ \A i \in 1..Len(w.s) : w.s[i] = SPACE
                 /\ n < Len(writes)
                    => writes[n + 1].kind = "cell" /\ writes[n + 1].at = w.at
           /\ (w.kind = "cell" /\ w.at.col >= 1)
              => n > 1 /\ writes[n - 1].kind = "gap" /\ writes[n - 1].at = w.at
           /\ (w.kind = "cell" /\ w.at.col = 0)
              => n = 1 \/ writes[n - 1].kind = "nl"
           /\ w.kind = "nl"
              => /\ writes[n - 1].kind = "cell"
                 /\ writes[n - 1].at.col = Len(RowOf(w).cells) - 1
                 /\ Cardinality({k \in 1..n :
                        /\ writes[k].kind = "gap"
                        /\ writes[k].at.row = w.at.row
                        /\ writes[k].at.line = w.at.line})
                      = Len(RowOf(w).cells) - 1

\* C8's case: a line of two cells whose blank char is not the space has
\* been written, with a gap of two spaces between them
C8_Witness ==
    \E n \in 1..Len(writes) :
       /\ writes[n].kind = "nl"
       /\ n > 3
       /\ writes[n - 2].kind = "gap"
       /\ writes[n - 2].s = <<SPACE, SPACE>>
       /\ writes[n - 1].at.blank_char = "."
       /\ writes[n - 3].kind = "cell" /\ writes[n - 3].at.blank_char = "."

\* what a constructor of Cell called with col_span has to do
CellMade(content, col_span, made) ==
    IF col_span = 0
    THEN /\ pc' = "panicked" /\ panic' = "Column span cannot be 0"
         /\ cells' = cells /\ cb' = cb
    ELSE /\ pc' = pc /\ panic' = panic
         /\ made # None
         /\ made[1].col_span = Some(col_span)
         /\ made[1].content = content

\* the Cell appended to cells by a step, if any
Appended ==
    IF Len(cells') = Len(cells) + 1 THEN Some(cells'[Len(cells')]) ELSE None

\* C9: Cell::new, and Cell::new_empty, Cell::new_fill and Cell::builder
\* through it, panic on a column span of 0 and produce no Cell; on a span
\* >= 1 they succeed and the Cell holds that span as its own value.
C9_ZeroSpanRejected ==
    [][\A content \in OptionContents, col_span \in SpanArgs :
          /\ CellNew(content, col_span) => CellMade(content, col_span, Appended)
          /\ CellNewEmpty(col_span) => CellMade(<<>>, col_span, Appended)
          /\ CellNewFill(content, col_span) => CellMade(content, col_span, Appended)
          /\ CellBuilderNew(content, col_span) => CellMade(content, col_span, cb')
      ]_vars

\* C9's case: a constructor called with a column span of 0 has panicked,
\* and one called with a span of 2 has made a Cell
C9_Witness ==
    /\ pc = "panicked" /\ panic = "Column span cannot be 0"
    /\ cb = None
    /\ Len(cells) = 1 /\ cells[1].col_span = Some(2)

\* the column spans stored in a sequence of cells
SpansOfCells(cs) == {cs[i].col_span : i \in 1..Len(cs)}
\* the column spans stored in a sequence of rows
SpansOfRows(rws) ==
    UNION {{rws[i].default_options.col_span} \cup SpansOfCells(rws[i].cells) :
             i \in 1..Len(rws)}
\* every column span stored in the state
StoredSpans ==
    SpansOfCells(cells) \cup SpansOfRows(rows)
      \cup (IF cb = None THEN {} ELSE {cb[1].col_span})
      \cup (IF rb = None THEN {} ELSE SpansOfRows(rb))
      \cup (IF gb = None THEN {}
            ELSE {gb[1].default_options.col_span} \cup SpansOfRows(gb[1].rows))
      \cup (IF grid = None THEN {}
            ELSE {grid[1].default_options.col_span} \cup SpansOfRows(grid[1].rows))

\* C10 as stated: no constructor or setter ever stores a column span of 0,
\* at cell, row or grid level, and rendering never resolves a span of 0.
C10_NoZeroSpan ==
    /\ Some(0) \notin StoredSpans
    /\ pc = "row" => Cur_col_span # 0

(***************************************************************************)
(* Claims about the guards and the shape of the rendered text              *)
(***************************************************************************)
\* C11 as stated: a line of 0 codepoints padded with Fill into a width
\* W >= 1 never runs into the division by its length: the call ends in a
\* fatal error of a guard, or returns W copies of blank_char.
C11_FillEmptyGuarded ==
    (PadReturned /\ call.h_align = "Fill" /\ Len(call.s) = 0 /\ call.width >= 1)
    => /\ call.res.panic # "attempt to divide by zero"
       /\ \/ IsPanic(call.res)
          \/ call.res.text = [i \in 1..call.width |-> call.blank_char]

\* the writes made for the row r of the grid, and the text they make up
WritesOfRow(r) == SelectSeq(writes, LAMBDA w : w.at.row = r)
RowText(r) == Written(WritesOfRow(r))

\* Row::render has been called on the row r and has ended: it has returned
\* or it has panicked
RowRendered(r) ==
    \/ pc \in {"grid", "done"} /\ rs.row_index > r
    \/ pc = "panicked" /\ rs.row_index = r

\* the effective column span of the cell c of the row r
SpanOf(r, c) ==
    LET row == grid[1].rows[r]
    IN  FirstSet(row.cells[c].col_span, row.default_options.col_span,
                 grid[1].default_options.col_span, 1)

\* C12 as stated: a Row of one cell of span 1 and of single-line (or empty)
\* content, rendered with a column width W >= 1, gives one line of exactly
\* W codepoints and its line terminator, whatever the alignments, the
\* blank char and the padding size.
C12_SingleCellRow ==
    \A r \in 1..(IF grid = None THEN 0 ELSE Len(grid[1].rows)) :
       LET row == grid[1].rows[r]
           W == RowColumnWidth(row, grid[1].column_width)
       IN  (/\ RowRendered(r)
            /\ Len(row.cells) = 1 /\ SpanOf(r, 1) = 1
            /\ Len(ColsLines(row.cells)[1]) = 1
            /\ W >= 1)
           => /\ pc # "panicked"
              /\ Len(RowText(r)) = W + 1
              /\ \A i \in 1..(W + 1) : (RowText(r)[i] = LF) <=> (i = W + 1)

\* the column width and the padding size the row r is rendered with
WidthOfRow(r) == RowColumnWidth(grid[1].rows[r], grid[1].column_width)
PaddingOfRow(r) == RowPaddingSize(grid[1].rows[r], grid[1].padding_size)

\* the sum of the effective spans of the first c cells of the row r
RECURSIVE SumSpans(_, _)
SumSpans(r, c) == IF c = 0 THEN 0 ELSE SpanOf(r, c) + SumSpans(r, c - 1)
TotalSpan(r) == SumSpans(r, Len(grid[1].rows[r].cells))

\* the text of the output line l of the row r written by the first n
\* writes, its line terminator left out
LineTextUpTo(n, r, l) ==
    Written(SelectSeq(SubSeq(writes, 1, n),
                      LAMBDA w : w.at.row = r /\ w.at.line = l /\ w.kind # "nl"))

\* the writes that end an output line
LineEnds == {n \in 1..Len(writes) : writes[n].kind = "nl"}

\* C13: an output line of a row of total span T >= 1 has T*W + P*(T-1)
\* codepoints before its terminator; so two rows of the same total span
\* rendered with the same W and P give lines of the same length, and every
\* cell starts at the offset j*(W+P), j being the columns to its left.
C13_LineWidth ==
    /\ \A n \in LineEnds :
          LET r == writes[n].at.row
              T == TotalSpan(r)
          IN  T >= 1
              => Len(LineTextUpTo(n, r, writes[n].at.line))
                   = T * WidthOfRow(r) + PaddingOfRow(r) * (T - 1)
    /\ \A n, m \in LineEnds :
          LET r == writes[n].at.row
              q == writes[m].at.row
          IN  (/\ TotalSpan(r) = TotalSpan(q) /\ TotalSpan(r) >= 1
               /\ WidthOfRow(r) = WidthOfRow(q)
               /\ PaddingOfRow(r) = PaddingOfRow(q))
              => Len(LineTextUpTo(n, r, writes[n].at.line))
                   = Len(LineTextUpTo(m, q, writes[m].at.line))
    /\ \A n \in 1..Len(writes) :
          LET w == writes[n]
          IN  w.kind = "cell"
              => Len(LineTextUpTo(n - 1, w.at.row, w.at.line))
                   = SumSpans(w.at.row, w.at.col)
                       * (WidthOfRow(w.at.row) + PaddingOfRow(w.at.row))

\* C13's case: a grid of a row of one cell of span 2 and a row of two cells
\* of span 1 has been rendered with W = 2 and P = 2; the second cell of the
\* second row started at the offset 4, and both lines have 6 codepoints
C13_Witness ==
    /\ pc = "done"
    /\ Len(grid[1].rows) = 2
    /\ Len(grid[1].rows[1].cells) = 1 /\ SpanOf(1, 1) = 2
    /\ Len(grid[1].rows[2].cells) = 2 /\ TotalSpan(2) = 2
    /\ WidthOfRow(1) = 2 /\ PaddingOfRow(1) = 2
    /\ \E n \in LineEnds :
          writes[n].at.row = 2 /\ Len(LineTextUpTo(n, 2, writes[n].at.line)) = 6
    /\ \E n \in 1..Len(writes) :
          /\ writes[n].kind = "cell" /\ writes[n].at.row = 2 /\ writes[n].at.col = 1
          /\ Len(LineTextUpTo(n - 1, 2, writes[n].at.line)) = 4

\* the number of chars of s that are ch
CountOf(s, ch) == Cardinality({i \in 1..Len(s) : s[i] = ch})

\* the line count of a content: 1 when it is empty or has no line break,
\* else its line breaks, and 1 more when text follows the last of them
LineCount(content) ==
    IF content = <<>> THEN 1
    ELSE CountOf(content, LF) + (IF content[Len(content)] = LF THEN 0 ELSE 1)

\* the largest line count among the cells of the row r, 0 without cells
MaxLineCount(r) ==
    LET cs == grid[1].rows[r].cells
    IN  IF cs = <<>> THEN 0
        ELSE CHOOSE m \in {LineCount(cs[i].content) : i \in 1..Len(cs)} :
                \A i \in 1..Len(cs) : LineCount(cs[i].content) <= m

\* Row::render has been called on the row r and has returned
RowReturned(r) == pc \in {"grid", "row", "done", "panicked"} /\ rs.row_index > r

\* C14: a Row renders max_lines output lines, each ended by one line
\* terminator, max_lines being the largest line count of its cells (1 for
\* an empty or unbroken content); without cells it renders nothing; on
\* each line the cells come left to right in the order of the Row.
C14_RowLines ==
    \A r \in 1..(IF grid = None THEN 0 ELSE Len(grid[1].rows)) :
       RowReturned(r)
       => LET ws == WritesOfRow(r)
              c == Len(grid[1].rows[r].cells)
              m == MaxLineCount(r)
              cellws == SelectSeq(ws, LAMBDA w : w.kind = "cell")
              nls == {n \in 1..Len(ws) : ws[n].kind = "nl"}
          IN  /\ Cardinality(nls) = m
              /\ CountOf(RowText(r), LF) = m
              /\ c = 0 => RowText(r) = <<>>
              /\ ws # <<>> => ws[Len(ws)].kind = "nl"
              /\ Len(cellws) = m * c
              /\ \A k \in 1..Len(cellws) :
                    /\ cellws[k].at.line = (k - 1) \div c
                    /\ cellws[k].at.col = (k - 1) % c
              /\ \A n \in nls : ws[n - 1].kind = "cell" /\ ws[n - 1].at.col = c - 1
              /\ \A k \in 1..Len(cellws) :
                    LET w == cellws[k]
                        ln == ColsLines(grid[1].rows[r].cells)[w.at.col + 1]
                    IN  (w.index # NoLine /\ w.at.h_align = "Left")
                        => \A i \in 1..Len(w.s) :
                              i <= Len(ln[w.index + 1]) => w.s[i] = ln[w.index + 1][i]

\* C14's case: a row of a cell of two lines and a cell of empty content has
\* been rendered in two lines, and a row without cells in none
C14_Witness ==
    /\ pc = "done"
    /\ Len(grid[1].rows) = 2
    /\ grid[1].rows[2].cells = <<>>
    /\ Len(grid[1].rows[1].cells) = 2
    /\ LineCount(grid[1].rows[1].cells[1].content) = 2
    /\ grid[1].rows[1].cells[2].content = <<>>
    /\ CountOf(RowText(1), LF) = 2
    /\ RowText(2) = <<>>

\* the texts of the rows r, r+1, .. of the grid, one after the other
RECURSIVE RowTextsFrom(_)
RowTextsFrom(r) ==
    IF r > Len(grid[1].rows) THEN <<>> ELSE RowText(r) \o RowTextsFrom(r + 1)

\* the sum of the line counts of the rows r, r+1, .. of the grid
RECURSIVE LineCountsFrom(_)
LineCountsFrom(r) ==
    IF r > Len(grid[1].rows) THEN 0 ELSE MaxLineCount(r) + LineCountsFrom(r + 1)

\* C15: the text of a Grid is the texts of its rows one after the other, in
\* the order of the rows and with nothing between them, each row rendered
\* by Row::render with the grid's default_options, column_width and
\* padding_size handed to it; without rows it is empty; its lines are as
\* many as the max_lines of the rows together.
C15_GridText ==
    /\ \A n, m \in 1..Len(writes) : n < m => writes[n].at.row <= writes[m].at.row
    /\ \A n \in 1..Len(writes) :
          LET w == writes[n]
          IN  /\ w.at.row \in 1..Len(grid[1].rows)
              /\ w.at.h_align
                   = FirstSet(CellOf(w).h_align, RowOf(w).default_options.h_align,
                              grid[1].default_options.h_align, "Left")
              /\ w.at.col_width
                   = SpanWidth(w.at.col_span,
                               FirstSet(None, grid[1].column_width,
                                        RowOf(w).column_width, 1),
                               FirstSet(None, grid[1].padding_size,
                                        RowOf(w).padding_size, 1))
    /\ pc = "done"
       => /\ Written(writes) = RowTextsFrom(1)
          /\ \A r \in 1..Len(grid[1].rows) :
                CountOf(RowText(r), LF) = MaxLineCount(r)
          /\ CountOf(Written(writes), LF) = LineCountsFrom(1)
          /\ grid[1].rows = <<>> => Written(writes) = <<>>

\* C15's case: a grid of a row of two lines and a row of one line, under a
\* grid-wide Fill, has been rendered in three lines, the row of two first
C15_Witness ==
    /\ pc = "done"
    /\ Len(grid[1].rows) = 2
    /\ grid[1].default_options.h_align = Some("Fill")
    /\ MaxLineCount(1) = 2 /\ MaxLineCount(2) = 1
    /\ CountOf(Written(writes), LF) = 3
    /\ writes[1].at.row = 1 /\ writes[Len(writes)].at.row = 2

\* the text the Grid has rendered
GridText == Written(writes)

\* the lines the renderer of another Grid makes of the rendered text, taken
\* as the content of one of its cells (row.rs:83-93)
NestedLines == ColsLines(<<Cell_new(GridText, 1).v[1]>>)[1]

\* the k-th line the Grid has rendered, its line terminator left out
NthLine(k) ==
    LET n == CHOOSE n \in LineEnds : Cardinality({m \in LineEnds : m <= n}) = k
    IN  LineTextUpTo(n, writes[n].at.row, writes[n].at.line)

\* a line without the carriage return that ends it, if one does
DropCR(l) ==
    IF l # <<>> /\ l[Len(l)] = CR THEN SubSeq(l, 1, Len(l) - 1) ELSE l

\* C16 as stated: the text rendered from any Grid, taken as the content of
\* a cell of another Grid, is split into as many lines as it has line
\* terminators, which is the number of lines rendered, and every line
\* rendered is kept, in order.
C16_NestedLines ==
    pc = "done"
    => /\ Len(NestedLines) = CountOf(GridText, LF)
       /\ Len(NestedLines) = Cardinality(LineEnds)
       /\ \A k \in 1..Cardinality(LineEnds) : NestedLines[k] = NthLine(k)

\* C16, amended: that holds of a Grid that renders at least one line, and
\* a line is kept but for a carriage return that ends it, which is
\* dropped; a Grid that renders the empty text gives one empty line.
C16_NestedLinesNonEmpty ==
    pc = "done"
    => /\ GridText # <<>>
          => /\ Len(NestedLines) = CountOf(GridText, LF)
             /\ Len(NestedLines) = Cardinality(LineEnds)
             /\ \A k \in 1..Cardinality(LineEnds) :
                   NestedLines[k] = DropCR(NthLine(k))
       /\ GridText = <<>> => NestedLines = <<(<<>>)>>

\* C16's case: a Grid has rendered three lines, the first not ending with
\* a carriage return and the last ending with one
C16_Witness ==
    /\ pc = "done"
    /\ Cardinality(LineEnds) = 3
    /\ Len(NestedLines) = 3
    /\ NestedLines[1] = NthLine(1) /\ NthLine(1) # <<>>
    /\ NestedLines[3] # NthLine(3)

\* C17: no step of a rendering changes the Grid, its Rows or its Cells
\* (only the scratch copies of the cell lines are written to), and every
\* rendering of the Grid returns the same text.
C17_InputUnchanged ==
    [][/\ pc' # "construct" => grid' = grid
       /\ \A i, j \in 1..Len(outputs') : outputs'[i] = outputs'[j]]_vars

\* C17's case: the Grid has been rendered twice, to the same text, and the
\* second rendering has extended the scratch copy of a line, padding it on
\* the right, while the content of the cell is still that line
C17_Witness ==
    /\ pc = "done"
    /\ Len(outputs) = 2 /\ outputs[1] = outputs[2] /\ outputs[2] = Written(writes)
    /\ \E n \in 1..Len(writes) :
          LET w == writes[n]
          IN  /\ w.kind = "cell" /\ w.index # NoLine /\ w.at.h_align = "Left"
              /\ Len(w.s) > Len(ColsLines(RowOf(w).cells)[w.at.col + 1][w.index + 1])

(***************************************************************************)
(* Claims about concurrent renders (SpecConcurrent)                        *)
(***************************************************************************)
\* the two calls of to_string: the one that is running and the one that waits
RenderCalls ==
    {[pc |-> pc, writes |-> writes, panic |-> panic, grid |-> grid],
     [pc |-> other.pc, writes |-> other.writes, panic |-> other.panic,
      grid |-> other.grid]}

IsPrefix(s, t) == Len(s) <= Len(t) /\ SubSeq(t, 1, Len(s)) = s

\* C18: when two calls of to_string run with their steps interleaved in any
\* order, on two Grids or on the same one, each call produces exactly the
\* text it produces when run alone: at every moment what a call has written
\* is the beginning of that text, a call that returns has written all of it,
\* and a call that panics is one that panics alone, with the same message.
C18_RunAlone ==
    \A c \in RenderCalls :
        LET alone == Grid_render(c.grid[1], "on")
        IN  /\ c.pc \in {"grid", "row", "done"} =>
                IF IsPanic(alone) THEN c.pc # "done"
                ELSE IsPrefix(Written(c.writes), alone.text)
            /\ c.pc = "done" => Written(c.writes) = alone.text
            /\ c.pc = "panicked" => alone.panic = c.panic

\* one call has returned its text while the other, rendering another Grid
\* with another text, had started and has not finished
C18_Witness ==
    /\ pc = "done" /\ Written(writes) # <<>>
    /\ other.pc = "row" /\ other.writes # <<>>
    /\ other.grid # grid
    /\ ~IsPrefix(Written(other.writes), Written(writes))

(***************************************************************************)
(* Claims about termination (SpecRenderFair)                               *)
(***************************************************************************)
\* the steps the row r takes: the call of Row::render and one pass of the
\* inner loop for each cell of each output line
RowSteps(r) == 1 + MaxLineCount(r) * Len(grid[1].rows[r].cells)

\* the steps the rows r, r+1, .. take
RECURSIVE StepsFrom(_)
StepsFrom(r) ==
    IF r > Len(grid[1].rows) THEN 0 ELSE RowSteps(r) + StepsFrom(r + 1)

\* the steps a running call has yet to take, its return being the last
StepsLeft ==
    IF pc = "grid" THEN StepsFrom(rs.row_index) + 1
    ELSE IF pc = "row"
    THEN LET c == Len(CurRow.cells)
         IN  (MaxLineCount(rs.row_index) * c - (rs.line_index * c + rs.col_index))
               + StepsFrom(rs.row_index + 1) + 1
    ELSE 0

\* the passes of the inner loops the rows r, r+1, .. take
RECURSIVE PassesFrom(_)
PassesFrom(r) ==
    IF r > Len(grid[1].rows) THEN 0
    ELSE MaxLineCount(r) * Len(grid[1].rows[r].cells) + PassesFrom(r + 1)

\* C19: rendering a Grid always terminates: every step of a running call
\* takes one from a count of steps left that the rows, their lines and
\* their cells fix; a call that returns has written the complete text (every
\* pass of every loop made, every line ended); a call that fails has
\* returned no text; and a call that runs ends, by returning or by failing.
C19_Terminates ==
    /\ [][(pc \in {"grid", "row"})
              => ((StepsLeft' = StepsLeft - 1) \/ (pc' = "panicked"))]_vars
    /\ [](pc \in {"grid", "row"} => StepsLeft >= 1)
    /\ [](pc = "done" =>
            /\ Len(SelectSeq(writes, LAMBDA w : w.kind = "cell")) = PassesFrom(1)
            /\ CountOf(GridText, LF) = LineCountsFrom(1)
            /\ GridText = Grid_render(grid[1], "on").text
            /\ outputs[Len(outputs)] = GridText)
    /\ [](pc = "panicked" => outputs = <<>>)
    /\ (pc \in {"grid", "row"}) ~> (pc \in {"done", "panicked"})

\* a Grid of two rows, of two cells and of several lines, has been rendered
\* to its end
C19_Witness ==
    /\ pc = "done" /\ outputs # <<>>
    /\ Len(grid[1].rows) = 2
    /\ \A r \in 1..2 : Len(grid[1].rows[r].cells) = 2 /\ MaxLineCount(r) = 2
    /\ PassesFrom(1) = 8 /\ Len(writes) > 8

(***************************************************************************)
(* Claims about the column width and padding size of a Row (SpecLayout)    *)
(***************************************************************************)
\* C20: Row::render resolves its column_width as the argument of its caller
\* (the Grid's value) when there is one, otherwise the Row's own
\* column_width, otherwise 1, and its padding_size the same way; neither
\* depends on the col_span, h_align, v_align or blank_char defaults of the
\* Row or of the Grid: the values of the Grid and of the Row fix them.
C20_ArgumentFirst ==
    pc = "row"
    => /\ rs.column_width
            = (IF grid[1].column_width # None THEN grid[1].column_width[1]
               ELSE IF CurRow.column_width # None THEN CurRow.column_width[1]
               ELSE 1)
       /\ rs.padding_size
            = (IF grid[1].padding_size # None THEN grid[1].padding_size[1]
               ELSE IF CurRow.padding_size # None THEN CurRow.padding_size[1]
               ELSE 1)

\* a Row that sets a column width is rendered with the other column width
\* its Grid sets, and with the padding size 1 that neither of them sets
C20_Witness ==
    /\ pc = "row"
    /\ grid[1].column_width # None /\ CurRow.column_width # None
    /\ grid[1].column_width # CurRow.column_width
    /\ rs.column_width = grid[1].column_width[1]
    /\ grid[1].padding_size = None /\ CurRow.padding_size = None
    /\ rs.padding_size = 1

(***************************************************************************)
(* Claims about the Display of a Row (SpecRowDisplay)                      *)
(***************************************************************************)
\* the Row of SpecRowDisplay, before and after it has gone into the Grid
TheRow == IF grid = None THEN rows[1] ELSE grid[1].rows[1]

\* C21: formatting a Row on its own gives exactly the text that rendering
\* a Grid made by Grid::new of that Row alone gives: the Grid that has
\* rendered has written the text of the Row's Display, which is the text
\* the Row's to_string returned before if it was called; and a call that
\* panics does so on a Row whose Display panics, with the same message.
C21_RowAlone ==
    /\ pc = "done" =>
          /\ ~IsPanic(Row_fmt(TheRow, "on"))
          /\ Written(writes) = Row_fmt(TheRow, "on").text
          /\ \A i, j \in 1..Len(outputs) : outputs[i] = outputs[j]
    /\ pc = "panicked" => Row_fmt(TheRow, "on").panic = panic
    /\ (outputs # <<>> /\ grid # None) => pc # "panicked"

\* a Row of two cells that sets a column width, a padding size and a
\* horizontal alignment of its own has been formatted on its own and then
\* rendered in a Grid, to a text of several lines
C21_Witness ==
    /\ pc = "done" /\ Len(outputs) = 2 /\ outputs[1] = outputs[2]
    /\ Len(TheRow.cells) = 2
    /\ TheRow.column_width # None /\ TheRow.padding_size # None
    /\ TheRow.default_options.h_align = Some("Right")
    /\ CountOf(outputs[1], LF) = 2

(***************************************************************************)
(* Claims about the indices of vertical alignment (SpecRowDisplay)         *)
(***************************************************************************)
\* C22: while a row is rendered, every cell has at least one scratch line
\* and at most max_lines of them, so that k-1, max_lines-k and max_lines-1,
\* which col_line computes in usize, are not negative; the output line
\* index is below max_lines; and for every cell and every output line the
\* content line that vertical alignment selects is a blank slot or one of
\* the lines 0..k-1 of the cell, as is every index a pass has used.
C22_IndexInRange ==
    /\ pc = "row" =>
          /\ rs.max_lines - 1 >= 0
          /\ rs.line_index \in 0..(rs.max_lines - 1)
          /\ \A c \in 1..Len(CurRow.cells) :
                LET k == Len(rs.cols_lines[c])
                    v_align == v_align_for(CurRow.cells[c], CurRow, rs.default_options)
                IN  /\ k - 1 >= 0
                    /\ rs.max_lines - k >= 0
                    /\ MiddleStart(rs.max_lines, k) + k - 1 >= 0
                    /\ \A l \in 0..(rs.max_lines - 1) :
                          col_line_index(v_align, k, rs.max_lines, l)
                             \in {NoLine} \cup 0..(k - 1)
    /\ \A n \in 1..Len(writes) :
          writes[n].kind = "cell" =>
             writes[n].index
                \in {NoLine} \cup 0..(Len(ColsLines(RowOf(writes[n]).cells)[writes[n].at.col + 1]) - 1)

\* a row of a cell of one line and of a cell of two lines, aligned to the
\* bottom, is at its second line: the first line of the short cell was a
\* blank slot
C22_Witness ==
    /\ pc = "row" /\ rs.line_index = 1 /\ rs.max_lines = 2
    /\ Len(rs.cols_lines) = 2
    /\ Len(rs.cols_lines[1]) = 1 /\ Len(rs.cols_lines[2]) = 2
    /\ v_align_for(CurRow.cells[1], CurRow, rs.default_options) = "Bottom"
    /\ \E n \in 1..Len(writes) :
          writes[n].kind = "cell" /\ writes[n].at.col = 0 /\ writes[n].index = NoLine

(***************************************************************************)
(* Claims about the scratch lines (SpecRowDisplay)                         *)
(***************************************************************************)
\* the passes that handed the content line i of the cell c of the row r to
\* pad
PadCalls(r, c, i) ==
    {n \in 1..Len(writes) :
        /\ writes[n].kind = "cell" /\ writes[n].at.row = r
        /\ writes[n].at.col = c /\ writes[n].index = i}

\* the content lines of the cell of a write, as the content gives them
ContentLines(w) == ColsLines(RowOf(w).cells)[w.at.col + 1]

\* a reference renderer of a row, which pads copies of the content lines
\* and leaves the lines themselves as they are: its text from the pass k on
RECURSIVE RefLoop(_, _, _, _, _)
RefLoop(row, default_options, column_width, padding_size, k) ==
    LET c == Len(row.cells)
        cols_lines == ColsLines(row.cells)
        max_lines == MaxLinesFrom(cols_lines, 1)
    IN  IF k >= max_lines * c THEN <<>>
        ELSE
          LET line_index == k \div c
              col_index == k % c
              col == row.cells[col_index + 1]
              col_span == col_span_for(col, row, default_options)
              col_width == SpanWidth(col_span, column_width, padding_size)
              h_align == h_align_for(col, row, default_options)
              blank_char == blank_char_for(col, row, default_options)
              index == col_line_index(v_align_for(col, row, default_options),
                                      Len(cols_lines[col_index + 1]), max_lines,
                                      line_index)
              text == IF index = NoLine THEN RepeatChar(blank_char, col_width)
                      ELSE pad(h_align, cols_lines[col_index + 1][index + 1],
                               col_width, blank_char).res.text
          IN  (IF col_index # 0 THEN RepeatChar(SPACE, padding_size) ELSE <<>>)
                \o text
                \o (IF col_index + 1 = c THEN <<LF>> ELSE <<>>)
                \o RefLoop(row, default_options, column_width, padding_size, k + 1)

\* the text of the reference renderer for the rows r, r+1, .. of the grid
RECURSIVE RefTextFrom(_)
RefTextFrom(r) ==
    IF r > Len(grid[1].rows) THEN <<>>
    ELSE LET row == grid[1].rows[r]
         IN  RefLoop(row, grid[1].default_options,
                     RowColumnWidth(row, grid[1].column_width),
                     RowPaddingSize(row, grid[1].padding_size), 0)
               \o RefTextFrom(r + 1)

\* C23: within one render of a row, no content line of a cell is handed to
\* pad twice, and when the row has been rendered each has been handed to it
\* exactly once; a scratch line differs from the content line only once it
\* has been handed to pad; every text pad returned is the one it returns
\* for the content line as the content gives it; and the text rendered is
\* the text of the reference renderer, which leaves the lines as they are.
C23_PaddedOnce ==
    /\ \A n \in 1..Len(writes) :
          LET w == writes[n]
          IN  (w.kind = "cell" /\ w.index # NoLine)
              => /\ PadCalls(w.at.row, w.at.col, w.index) = {n}
                 /\ w.s = pad(w.at.h_align, ContentLines(w)[w.index + 1],
                              w.at.col_width, w.at.blank_char).res.text
    /\ \A r \in 1..(IF grid = None THEN 0 ELSE Len(grid[1].rows)) :
          RowReturned(r)
          => \A c \in 1..Len(grid[1].rows[r].cells) :
                \A i \in 1..Len(ColsLines(grid[1].rows[r].cells)[c]) :
                   Cardinality(PadCalls(r, c - 1, i - 1)) = 1
    /\ pc = "row"
       => \A c \in 1..Len(CurRow.cells) : \A i \in 1..Len(rs.cols_lines[c]) :
             PadCalls(rs.row_index, c - 1, i - 1) = {}
             => rs.cols_lines[c][i] = ColsLines(CurRow.cells)[c][i]
    /\ pc = "done" => Written(writes) = RefTextFrom(1)

\* a row has been rendered in which the Left branch of pad extended a
\* scratch line of a cell of two lines before the next line of the cell was
\* handed to pad
C23_Witness ==
    /\ pc = "done" /\ Written(writes) # <<>>
    /\ \E n, m \in 1..Len(writes) :
          /\ n < m
          /\ writes[n].kind = "cell" /\ writes[m].kind = "cell"
          /\ writes[n].at.col = writes[m].at.col
          /\ writes[n].index = 0 /\ writes[m].index = 1
          /\ writes[n].at.h_align = "Left"
          /\ writes[n].s # ContentLines(writes[n])[1]
          /\ Len(writes[n].s) > Len(ContentLines(writes[n])[1])

(***************************************************************************)
(* Claims about pad called on its own result (SpecPad)                     *)
(***************************************************************************)
\* C24: pad is idempotent for a fixed width: when pad has returned a text
\* and is called on that text with the same alignment, width and
\* blank_char, it returns that same text again, without a panic: the text
\* has exactly width codepoints, so the second call takes the truncation
\* branch and leaves the line as it is.
C24_Idempotent ==
    /\ (call.fn = "pad" /\ call.first # None)
          => Len(call.s) = call.width /\ call.s = call.first[1]
    /\ (PadReturned /\ call.first # None)
          => /\ call.res.panic = NoPanic
             /\ call.res.text = call.first[1]
             /\ call.res = pad_truncate(call.s, call.width)
             /\ call.s_after = call.s

\* pad, which had centred a line with a two-byte blank char to a width of 4,
\* has returned from its second call
C24_Witness ==
    /\ PadReturned /\ call.first # None
    /\ call.h_align = "Center" /\ call.width = 4 /\ call.blank_char = "delta"
    /\ call.res.text[1] = "delta" /\ call.res.text[2] = "mu"
    /\ call.res.text[4] = "delta"

=============================================================================
